---------------------------- MODULE Spec2Model ----------------------------
(***************************************************************************)
(* A model of the two components of the repository:                        *)
(*                                                                         *)
(*   - the proxy service, src/api/sleeper.py: four GET routes that each    *)
(*     forward one request to the upstream API through sleeper_get;        *)
(*   - the cache loader, src/db/scripts/cache_sleeper_players.py: main()   *)
(*     fetches the player dataset, flattens every entry into a row and     *)
(*     upserts the rows and three meta keys in one transaction.            *)
(*                                                                         *)
(* Three specifications share the module.  SpecProxy runs inbound requests *)
(* through the router and sleeper_get.  SpecLoader runs main() step by     *)
(* step against the store, with failures at every step.  SpecRow applies   *)
(* the row preparation of main() to one upstream entry at a time.          *)
(***************************************************************************)
EXTENDS Integers, Sequences, FiniteSets, TLC

VARIABLES
    \* ---- proxy service ----
    ppc,             \* position of the request handler: "idle", "awaiting", "done"
    req,             \* the route and path parameters the client addressed
    inbound,         \* the inbound path, a sequence of segments
    endpoint,        \* index of the endpoint function the router called (0: none)
    upstream_calls,  \* the URLs sleeper_get has requested for this inbound request
    upstream,        \* what the upstream did with the request
    response,        \* the proxy's answer to the inbound request
    \* ---- cache loader ----
    pc,              \* position in main()
    schema,          \* whether the tables exist (ensure_db has run once)
    players,         \* the players table as committed: player_id -> row
    meta,            \* the meta table as committed: key -> value
    tx_active,       \* the connection has an open transaction
    tx_players,      \* the players table as the connection sees it
    tx_meta,         \* the meta table as the connection sees it
    clock,           \* the wall clock in whole seconds, as last read
    players_obj,     \* main(): the fetched dataset, <<key, entry>> pairs in order
    now,             \* main(): int(time.time()) taken after the fetch
    rows,            \* main(): the prepared rows
    idx,             \* executemany: index of the next row to upsert
    formatted_time,  \* mark_cached: time.ctime(time.time())
    result,          \* how the run ended: "none", "ok", "raised"
    runs,            \* number of runs started
    pre_players,     \* the players table when the run started
    pre_meta,        \* the meta table when the run started
    last,            \* the previous run: its result, dataset and fetch time
    \* ---- row preparation ----
    row_key,         \* the key of the entry in the upstream mapping
    row_p,           \* the upstream entry
    row_out          \* the row prepared from it (NoRow before, PrepError on a raise)

proxy_vars == <<ppc, req, inbound, endpoint, upstream_calls, upstream, response>>

loader_vars == <<pc, schema, players, meta, tx_active, tx_players, tx_meta, clock,
                 players_obj, now, rows, idx, formatted_time, result, runs,
                 pre_players, pre_meta, last>>

row_vars == <<row_key, row_p, row_out>>

vars == <<proxy_vars, loader_vars, row_vars>>

(***************************************************************************)
(* JSON values, as Python holds them after r.json(): None, str, int, list  *)
(* and dict.  A dict is a function from the keys it has to their values.   *)
(***************************************************************************)
JNull == [t |-> "null"]

JStr(s) == [t |-> "str", s |-> s]

JInt(n) == [t |-> "int", n |-> n]

JList(l) == [t |-> "list", l |-> l]

JObj(d) == [t |-> "obj", d |-> d]

EmptyDict == <<>>

\* Python truthiness, as used by `if x` and `or`.
Truthy(v) ==
    CASE v.t = "null" -> FALSE
      [] v.t = "str"  -> v.s # ""
      [] v.t = "int"  -> v.n # 0
      [] v.t = "list" -> v.l # <<>>
      [] OTHER        -> v.d # EmptyDict

(***************************************************************************)
(*                        THE PROXY SERVICE                                *)
(***************************************************************************)
SLEEPER_BASE_URL == "https://api.sleeper.app/v1"

\* The routes in the order the decorators register them.  A path is the
\* sequence of its segments; "{x}" is a path parameter, which matches one
\* non-empty segment.  The source names both of the last two functions
\* get_league.
Routes ==
    << [path |-> <<>>, name |-> "root"],
       [path |-> <<"sleeper", "user", "{user_id}">>, name |-> "get_user"],
       [path |-> <<"sleeper", "{user_id}", "leagues", "{sport}", "{season}">>,
        name |-> "get_user_leagues"],
       [path |-> <<"sleeper", "league", "{league_id}">>, name |-> "get_league"],
       [path |-> <<"sleeper", "league", "{league_id}", "rosters">>,
        name |-> "get_league"] >>

ParamNames == {"{user_id}", "{sport}", "{season}", "{league_id}"}

IsParam(seg) == seg \in ParamNames

ParamsOf(r) == {Routes[r].path[i] : i \in {j \in DOMAIN Routes[r].path : IsParam(Routes[r].path[j])}}

\* The router's test of one route against a path.
Match(tpl, path) ==
    /\ Len(tpl) = Len(path)
    /\ \A i \in DOMAIN tpl : IsParam(tpl[i]) \/ tpl[i] = path[i]

\* The values the matched route binds to its parameters.
PathParams(tpl, path) ==
    [name \in {tpl[i] : i \in {j \in DOMAIN tpl : IsParam(tpl[j])}} |->
        path[CHOOSE i \in DOMAIN tpl : tpl[i] = name]]

\* The first registered route that matches, 0 when none does.
Dispatch(path) ==
    IF \E r \in DOMAIN Routes : Match(Routes[r].path, path)
    THEN CHOOSE r \in DOMAIN Routes :
             /\ Match(Routes[r].path, path)
             /\ \A q \in DOMAIN Routes : Match(Routes[q].path, path) => r <= q
    ELSE 0

\* A route looked up by the name of its function when the request arrives:
\* the second get_league has replaced the first in the module's namespace.
RouteEndpointByName(r) ==
    CHOOSE q \in DOMAIN Routes :
        /\ Routes[q].name = Routes[r].name
        /\ \A k \in DOMAIN Routes : Routes[k].name = Routes[r].name => k <= q

\* The endpoint a route calls: the function object its decorator was given,
\* which is the function defined right beneath it.
RouteEndpoint(r) == r

\* The endpoint functions: the path each hands to sleeper_get.
get_user(a) == <<"user", a["{user_id}"]>>

get_user_leagues(a) == <<"user", a["{user_id}"], "leagues", a["{sport}"], a["{season}"]>>

get_league(a) == <<"league", a["{league_id}"]>>

get_league_rosters(a) == <<"league", a["{league_id}"], "rosters">>

EndpointPath(e, a) ==
    CASE e = 2 -> get_user(a)
      [] e = 3 -> get_user_leagues(a)
      [] e = 4 -> get_league(a)
      [] e = 5 -> get_league_rosters(a)

\* url = f"{SLEEPER_BASE_URL}{path}"
Url(path) == <<SLEEPER_BASE_URL>> \o path

\* The inbound path a client sends for route r with the given parameters.
Substitute(tpl, a) == [i \in DOMAIN tpl |-> IF IsParam(tpl[i]) THEN a[tpl[i]] ELSE tpl[i]]

\* Parameter values of inbound requests, the literal segments among them.
ParamValues == {"42", "user", "league", "leagues", "rosters"}

\* Inbound paths no route is written for.
UnroutedPaths == {<<"sleeper">>, <<"sleeper", "user">>, <<"players", "nfl">>,
                  <<"sleeper", "league", "42", "users">>}

\* Upstream responses: status codes and body texts.
Statuses == {200, 201, 204, 302, 399, 400, 404, 429, 500, 503, 599}

Bodies == {"{\"user_id\":\"42\"}", "[]", "null", "not found", ""}

RequestErrors == {"ConnectError", "ConnectTimeout", "ReadTimeout"}

DecodeError == [t |-> "JSONDecodeError"]

\* resp.json(): the value a body text decodes to, or the decoder's raise.
JsonDecode(text) ==
    CASE text = "{\"user_id\":\"42\"}" -> JObj([user_id |-> JStr("42")])
      [] text = "[]"                   -> JList(<<>>)
      [] text = "null"                 -> JNull
      [] OTHER                         -> DecodeError

HTTPException(status_code, detail) == [status |-> status_code, detail |-> detail]

\* An exception no handler catches: the framework answers 500.
Unhandled == [status |-> 500, detail |-> "Internal Server Error"]

NoUpstream == [kind |-> "none"]

NoResponse == [status |-> 0]

NoReq == [route |-> 0, args |-> EmptyDict]

\* sleeper_get with every error of the upstream status passed through as a
\* server error only: a threshold of 500 where the source has 400.
SleeperGetResult5xx(up) ==
    IF up.kind = "request_error"
    THEN HTTPException(502, "Could not reach Sleeper: " \o up.exc)
    ELSE IF up.status >= 500
         THEN HTTPException(up.status, up.text)
         ELSE IF JsonDecode(up.text) = DecodeError
              THEN Unhandled
              ELSE [status |-> 200, json |-> JsonDecode(up.text)]

\* sleeper_get with a timeout reported as 504 instead of the fixed 502.
SleeperGetResultTimeout504(up) ==
    IF up.kind = "request_error"
    THEN HTTPException(IF up.exc = "ConnectError" THEN 502 ELSE 504,
                       "Could not reach Sleeper: " \o up.exc)
    ELSE IF up.status >= 400
         THEN HTTPException(up.status, up.text)
         ELSE IF JsonDecode(up.text) = DecodeError
              THEN Unhandled
              ELSE [status |-> 200, json |-> JsonDecode(up.text)]

\* What sleeper_get makes of the upstream's answer.
SleeperGetResult(up) ==
    IF up.kind = "request_error"
    THEN HTTPException(502, "Could not reach Sleeper: " \o up.exc)
    ELSE IF up.status >= 400
         THEN HTTPException(up.status, up.text)
         ELSE IF JsonDecode(up.text) = DecodeError
              THEN Unhandled
              ELSE [status |-> 200, json |-> JsonDecode(up.text)]

ProxyIdle ==
    /\ ppc = "idle"
    /\ req = NoReq
    /\ inbound = <<>>
    /\ endpoint = 0
    /\ upstream_calls = <<>>
    /\ upstream = NoUpstream
    /\ response = NoResponse

\* GET /: answered without an upstream request.
Root ==
    /\ ppc = "idle"
    /\ Dispatch(<<>>) = 1
    /\ ppc' = "done"
    /\ req' = [route |-> 1, args |-> EmptyDict]
    /\ inbound' = <<>>
    /\ endpoint' = RouteEndpoint(1)
    /\ response' = [status |-> 200, json |-> JObj([message |-> JStr("Hello World")])]
    /\ UNCHANGED <<loader_vars, row_vars, upstream_calls, upstream>>

\* An inbound request for route r: the router picks the route, calls its
\* endpoint, and sleeper_get sends its one GET.
Receive(r, a) ==
    /\ ppc = "idle"
    /\ LET path == Substitute(Routes[r].path, a)
           d == Dispatch(path)
           e == RouteEndpoint(d)
       IN  /\ req' = [route |-> r, args |-> a]
           /\ inbound' = path
           /\ endpoint' = e
           /\ upstream_calls' = <<Url(EndpointPath(e, PathParams(Routes[d].path, path)))>>
    /\ ppc' = "awaiting"
    /\ UNCHANGED <<loader_vars, row_vars, upstream, response>>

\* An inbound request that matches no route: the router answers 404.
ReceiveUnrouted(path) ==
    /\ ppc = "idle"
    /\ Dispatch(path) = 0
    /\ ppc' = "done"
    /\ inbound' = path
    /\ response' = HTTPException(404, "Not Found")
    /\ UNCHANGED <<loader_vars, row_vars, req, endpoint, upstream_calls, upstream>>

\* client.get raises httpx.RequestError: no response was received.
TransportFailure(exc) ==
    /\ ppc = "awaiting"
    /\ upstream' = [kind |-> "request_error", exc |-> exc]
    /\ response' = SleeperGetResult(upstream')
    /\ ppc' = "done"
    /\ UNCHANGED <<loader_vars, row_vars, req, inbound, endpoint, upstream_calls>>

\* client.get returns a response.
UpstreamResponds(status, text) ==
    /\ ppc = "awaiting"
    /\ upstream' = [kind |-> "response", status |-> status, text |-> text]
    /\ response' = SleeperGetResult(upstream')
    /\ ppc' = "done"
    /\ UNCHANGED <<loader_vars, row_vars, req, inbound, endpoint, upstream_calls>>

\* The request is over; the next one shares nothing with it.
NextRequest ==
    /\ ppc = "done"
    /\ ppc' = "idle"
    /\ req' = NoReq
    /\ inbound' = <<>>
    /\ endpoint' = 0
    /\ upstream_calls' = <<>>
    /\ upstream' = NoUpstream
    /\ response' = NoResponse
    /\ UNCHANGED <<loader_vars, row_vars>>

(***************************************************************************)
(*                  THE CACHE LOADER: ROW PREPARATION                      *)
(***************************************************************************)
\* p.get(k): None for a key the entry lacks, and for a key whose value is null.
Get(p, k) == IF k \in DOMAIN p.d THEN p.d[k] ELSE JNull

Digits == <<"0", "1", "2", "3", "4", "5", "6", "7", "8", "9">>

RECURSIVE Numeral(_)
Numeral(n) == IF n < 10 THEN Digits[n + 1] ELSE Numeral(n \div 10) \o Digits[(n % 10) + 1]

\* str(x) of a string or of a non-negative integer.
PyStr(v) ==
    CASE v.t = "str" -> v.s
      [] v.t = "int" -> Numeral(v.n)

\* json.dumps(x): a text, held as the value it encodes.
JsonDumps(v) == [t |-> "json", of |-> v]

\* " ".join(parts) for a list of at most two strings.
Join(parts) ==
    CASE Len(parts) = 0 -> ""
      [] Len(parts) = 1 -> parts[1].s
      [] Len(parts) = 2 -> parts[1].s \o " " \o parts[2].s

\* [x for x in [first, last] if x]
NameParts(p) == SelectSeq(<<Get(p, "first_name"), Get(p, "last_name")>>, Truthy)

\* The full name joined only when both names are there, the upstream's
\* full_name in every other case.
FullNameBothOrFallback(p) ==
    IF Len(NameParts(p)) = 2 THEN JStr(Join(NameParts(p))) ELSE Get(p, "full_name")

\* " ".join([x for x in [first, last] if x]) or p.get("full_name")
FullName(p) ==
    IF Join(NameParts(p)) # "" THEN JStr(Join(NameParts(p))) ELSE Get(p, "full_name")

\* json.dumps(fantasy_positions) if fantasy_positions else None
FantasyPositionsJsonIfTruthy(p) ==
    IF Truthy(Get(p, "fantasy_positions"))
    THEN JsonDumps(Get(p, "fantasy_positions"))
    ELSE JNull

\* json.dumps(fantasy_positions) if fantasy_positions is not None else None
FantasyPositionsJson(p) ==
    IF Get(p, "fantasy_positions") # JNull
    THEN JsonDumps(Get(p, "fantasy_positions"))
    ELSE JNull

\* str(p.get("player_id") or player_id)
RowId(player_id, p) ==
    IF Truthy(Get(p, "player_id")) THEN PyStr(Get(p, "player_id")) ELSE player_id

\* The columns main() fills with p.get(<column name>).
PlainColumns == {"first_name", "last_name", "search_full_name", "search_first_name",
                 "search_last_name", "team", "position", "status", "sport", "number",
                 "age", "depth_chart_position", "depth_chart_order", "years_exp"}

\* The columns of the players table.
Columns == PlainColumns \cup {"player_id", "full_name", "fantasy_positions_json",
                              "data_json", "updated_at"}

\* Row preparation raises: the entry is no dict (it has no .get), or a name
\* that goes into the join is no string.
PrepRaises(p) ==
    \/ p.t # "obj"
    \/ \E i \in DOMAIN NameParts(p) : NameParts(p)[i].t # "str"

\* The tuple main() appends to rows for one entry of the dataset.
MakeRow(player_id, p, t) ==
    [c \in Columns |->
        CASE c = "player_id"              -> JStr(RowId(player_id, p))
          [] c = "full_name"              -> FullName(p)
          [] c = "fantasy_positions_json" -> FantasyPositionsJson(p)
          [] c = "data_json"              -> JsonDumps(p)
          [] c = "updated_at"             -> JInt(t)
          [] OTHER                        -> Get(p, c)]

NoRow == [t |-> "no_row"]

PrepError == [t |-> "raised"]

\* ---- the specification of row preparation alone ----
NameValues == {JNull, JStr(""), JStr("Tom"), JStr("Brady"), JStr("X Y")}

Keys == {"1", "2"}

\* Entries with every combination of the name fields absent, null, empty and
\* set, with and without a player_id and fantasy_positions of their own.
RowEntries ==
    { JObj(d) : d \in UNION { [S -> NameValues] :
                              S \in SUBSET {"first_name", "last_name", "full_name"} } }
    \cup { JObj([player_id |-> i, fantasy_positions |-> f]) :
             i \in {JNull, JStr(""), JStr("7"), JInt(0), JInt(42)},
             f \in {JNull, JList(<<>>), JList(<<JStr("QB")>>)} }
    \cup { JObj([first_name |-> JInt(7)]), JNull, JList(<<>>) }

RowIdle ==
    /\ row_key = "1"
    /\ row_p = JNull
    /\ row_out = NoRow

InitRow ==
    /\ row_key \in Keys
    /\ row_p \in RowEntries
    /\ row_out = NoRow

\* One pass of the loop body of main() over the entry.
PrepareRow ==
    /\ row_out = NoRow
    /\ row_out' = IF PrepRaises(row_p) THEN PrepError ELSE MakeRow(row_key, row_p, 0)
    /\ UNCHANGED <<proxy_vars, loader_vars, row_key, row_p>>

(***************************************************************************)
(*                  THE CACHE LOADER: THE STORE AND main()                 *)
(***************************************************************************)
MaxRuns == 2

MaxTime == 1

EmptyTable == <<>>

\* The columns the ON CONFLICT clause overwrites, with updated_at left out.
UpdateColumnsKeepStamp == Columns \ {"player_id", "updated_at"}

\* The columns the ON CONFLICT(player_id) DO UPDATE SET clause overwrites.
UpdateColumns == Columns \ {"player_id"}

\* sqlite3 binds None, str and int; a list or a dict raises.
Bindable(row) == \A c \in Columns : row[c].t \in {"null", "str", "int", "json"}

\* The NOT NULL constraints of the players table.
NotNullOk(row) == row["data_json"] # JNull /\ row["updated_at"] # JNull

\* The upsert as INSERT ... ON CONFLICT(player_id) DO NOTHING: a row that
\* exists is left as it is.
UpsertIgnoringConflict(table, row) ==
    LET id == row["player_id"].s
    IN  [k \in DOMAIN table \cup {id} |-> IF k \in DOMAIN table THEN table[k] ELSE row]

\* The upsert as a replacement of the table's contents: the rows of other
\* players are deleted.
UpsertIntoClearedTable(table, row) ==
    LET id == row["player_id"].s
    IN  [k \in {id} |-> row]

\* INSERT INTO players ... ON CONFLICT(player_id) DO UPDATE SET ...
Upsert(table, row) ==
    LET id == row["player_id"].s
    IN  [k \in DOMAIN table \cup {id} |->
            IF k # id THEN table[k]
            ELSE IF id \in DOMAIN table
                 THEN [c \in Columns |->
                          IF c \in UpdateColumns THEN row[c] ELSE table[id][c]]
                 ELSE row]

\* INSERT INTO meta(key,value) ... ON CONFLICT(key) DO UPDATE SET value=excluded.value
MetaUpsert(table, key, value) ==
    [k \in DOMAIN table \cup {key} |-> IF k = key THEN value ELSE table[k]]

\* str(time.ctime(t)): a text that names the second t.
Ctime(t) == [t |-> "ctime", at |-> t]

\* The store after the except branch, had it committed the connection's
\* writes instead of discarding them.
AfterRollbackKeepsWrites(committed, working) == working

\* The store after the except branch: conn.rollback() discards what the
\* connection wrote since BEGIN and leaves what was committed.
AfterRollback(committed, working) == committed

\* The entries of the datasets the loader is run against.
pBrady == JObj([first_name |-> JStr("Tom"), last_name |-> JStr("Brady"),
                team |-> JNull, number |-> JInt(12),
                fantasy_positions |-> JList(<<JStr("QB")>>)])

pXY == JObj([player_id |-> JInt(2), full_name |-> JStr("X Y"),
             fantasy_positions |-> JList(<<>>)])

pTeamObject == JObj([first_name |-> JStr("Tom"), team |-> JObj([abbr |-> JStr("NE")])])

pBare == JObj([player_id |-> JStr("1"), first_name |-> JStr(""), number |-> JInt(0)])

LoaderEntries == {pBrady, pXY, pBare, pTeamObject, JNull}

\* The upstream mappings: no entry, one entry under either key, or an entry
\* under each key in the order "1", "2".  An entry that carries a player_id
\* of its own is written under that id: pXY under "2", pBare under "1".
Datasets ==
    {<<>>}
    \cup { <<<<k, e>>>> : k \in Keys, e \in LoaderEntries }
    \cup { << <<"1", e1>>, <<"2", e2>> >> : e1 \in LoaderEntries, e2 \in LoaderEntries }

NoRun == [result |-> "none", obj |-> <<>>, now |-> 0]

LoaderIdle ==
    /\ pc = "idle"
    /\ schema = FALSE
    /\ players = EmptyTable
    /\ meta = EmptyTable
    /\ tx_active = FALSE
    /\ tx_players = EmptyTable
    /\ tx_meta = EmptyTable
    /\ clock = 0
    /\ players_obj = <<>>
    /\ now = 0
    /\ rows = <<>>
    /\ idx = 0
    /\ formatted_time = Ctime(0)
    /\ result = "none"
    /\ runs = 0
    /\ pre_players = EmptyTable
    /\ pre_meta = EmptyTable
    /\ last = NoRun

run_locals == <<players_obj, now, rows, idx, formatted_time>>

history == <<pre_players, pre_meta, last, runs>>

\* main() is invoked: conn = sqlite3.connect(DB_PATH).
Start ==
    /\ pc = "idle"
    /\ runs < MaxRuns
    /\ runs' = runs + 1
    /\ pc' = "ensure_db"
    /\ result' = "none"
    /\ pre_players' = players
    /\ pre_meta' = meta
    /\ tx_players' = players
    /\ tx_meta' = meta
    /\ UNCHANGED <<proxy_vars, row_vars, schema, players, meta, tx_active, clock, run_locals, last>>

\* ensure_db(conn): the tables and indexes are created if absent, each
\* statement committed on its own; rows are not touched.
EnsureDb ==
    /\ pc = "ensure_db"
    /\ schema' = TRUE
    /\ pc' = "fetch"
    /\ UNCHANGED <<proxy_vars, row_vars, players, meta, tx_active, tx_players, tx_meta, clock,
                   run_locals, result, history>>

\* The except branch: conn.rollback(); raise.
Raise ==
    /\ players' = AfterRollback(players, tx_players)
    /\ meta' = AfterRollback(meta, tx_meta)
    /\ tx_players' = players'
    /\ tx_meta' = meta'
    /\ tx_active' = FALSE
    /\ result' = "raised"
    /\ pc' = "done"

\* fetch_players() raises: the request fails, raise_for_status() finds an
\* error status, or the body is no JSON.
FetchFails ==
    /\ pc = "fetch"
    /\ Raise
    /\ UNCHANGED <<proxy_vars, row_vars, schema, clock, run_locals, history>>

\* players_obj = fetch_players(); now = int(time.time()): the clock is read
\* at second t, not before the second it was last read at.
Fetch(obj, t) ==
    /\ pc = "fetch"
    /\ players_obj' = obj
    /\ clock' = t
    /\ now' = t
    /\ pc' = "prepare"
    /\ UNCHANGED <<proxy_vars, row_vars, schema, players, meta, tx_active, tx_players, tx_meta,
                   rows, idx, formatted_time, result, history>>

\* The loop over players_obj.items() that builds rows.
Prepare ==
    /\ pc = "prepare"
    /\ IF \E i \in DOMAIN players_obj : PrepRaises(players_obj[i][2])
       THEN /\ Raise
            /\ UNCHANGED <<proxy_vars, row_vars, schema, clock, run_locals, history>>
       ELSE /\ rows' = [i \in DOMAIN players_obj |->
                           MakeRow(players_obj[i][1], players_obj[i][2], now)]
            /\ pc' = "begin"
            /\ UNCHANGED <<proxy_vars, row_vars, schema, players, meta, tx_active, tx_players, tx_meta,
                           clock, players_obj, now, idx, formatted_time, result,
                           history>>

\* conn.execute("BEGIN;")
Begin ==
    /\ pc = "begin"
    /\ tx_active' = TRUE
    /\ idx' = 1
    /\ pc' = "executemany"
    /\ UNCHANGED <<proxy_vars, row_vars, schema, players, meta, tx_players, tx_meta, clock, players_obj,
                   now, rows, formatted_time, result, history>>

\* executemany: the next row is bound and upserted, or the statement raises.
UpsertRow ==
    /\ pc = "executemany"
    /\ idx <= Len(rows)
    /\ IF Bindable(rows[idx]) /\ NotNullOk(rows[idx])
       THEN /\ tx_players' = Upsert(tx_players, rows[idx])
            /\ idx' = idx + 1
            /\ UNCHANGED <<proxy_vars, row_vars, pc, schema, players, meta, tx_active, tx_meta, clock,
                           players_obj, now, rows, formatted_time, result, history>>
       ELSE /\ Raise
            /\ UNCHANGED <<proxy_vars, row_vars, schema, clock, run_locals, history>>

\* executemany returns; mark_cached begins:
\* formatted_time = str(time.ctime(time.time())), the clock read at second t.
UpsertDone(t) ==
    /\ pc = "executemany"
    /\ idx > Len(rows)
    /\ clock' = t
    /\ formatted_time' = Ctime(t)
    /\ pc' = "mark_cached"
    /\ UNCHANGED <<proxy_vars, row_vars, schema, players, meta, tx_active, tx_players, tx_meta,
                   players_obj, now, rows, idx, result, history>>

\* mark_cached: players_cached = '1'
MarkCached ==
    /\ pc = "mark_cached"
    /\ tx_meta' = MetaUpsert(tx_meta, "players_cached", JStr("1"))
    /\ pc' = "mark_cached_at"
    /\ UNCHANGED <<proxy_vars, row_vars, schema, players, meta, tx_active, tx_players, clock, run_locals,
                   result, history>>

\* mark_cached: players_cached_at = formatted_time
MarkCachedAt ==
    /\ pc = "mark_cached_at"
    /\ tx_meta' = MetaUpsert(tx_meta, "players_cached_at", formatted_time)
    /\ pc' = "mark_count"
    /\ UNCHANGED <<proxy_vars, row_vars, schema, players, meta, tx_active, tx_players, clock, run_locals,
                   result, history>>

\* mark_cached: players_count = str(count), count = len(rows)
MarkCount ==
    /\ pc = "mark_count"
    /\ tx_meta' = MetaUpsert(tx_meta, "players_count", JStr(PyStr(JInt(Len(rows)))))
    /\ pc' = "commit"
    /\ UNCHANGED <<proxy_vars, row_vars, schema, players, meta, tx_active, tx_players, clock, run_locals,
                   result, history>>

\* conn.commit(): the connection's writes become the store's contents.
Commit ==
    /\ pc = "commit"
    /\ players' = tx_players
    /\ meta' = tx_meta
    /\ tx_active' = FALSE
    /\ result' = "ok"
    /\ pc' = "done"
    /\ UNCHANGED <<proxy_vars, row_vars, schema, tx_players, tx_meta, clock, run_locals, history>>

\* A statement on the connection raises (disk full, database locked, I/O
\* error): at schema creation, BEGIN, a row of executemany, a meta write or
\* the commit.
StorageFailure ==
    /\ pc \in {"ensure_db", "begin", "executemany", "mark_cached", "mark_cached_at",
               "mark_count", "commit"}
    /\ Raise
    /\ UNCHANGED <<proxy_vars, row_vars, schema, clock, run_locals, history>>

\* finally: conn.close(); the process ends.
Exit ==
    /\ pc = "done"
    /\ pc' = "idle"
    /\ last' = [result |-> result, obj |-> players_obj, now |-> now]
    /\ players_obj' = <<>>
    /\ now' = 0
    /\ rows' = <<>>
    /\ idx' = 0
    /\ formatted_time' = Ctime(0)
    /\ pre_players' = players
    /\ pre_meta' = meta
    /\ UNCHANGED <<proxy_vars, row_vars, schema, players, meta, tx_active, tx_players, tx_meta, clock,
                   result, runs>>

(***************************************************************************)
(*                          THE SPECIFICATIONS                             *)
(***************************************************************************)
InitProxy == ProxyIdle /\ LoaderIdle /\ RowIdle

NextProxy ==
    \/ Root
    \/ \E r \in 2 .. Len(Routes) : \E a \in [ParamsOf(r) -> ParamValues] : Receive(r, a)
    \/ \E path \in UnroutedPaths : ReceiveUnrouted(path)
    \/ \E exc \in RequestErrors : TransportFailure(exc)
    \/ \E status \in Statuses : \E text \in Bodies : UpstreamResponds(status, text)
    \/ NextRequest

SpecProxy == InitProxy /\ [][NextProxy]_vars

InitLoader == ProxyIdle /\ LoaderIdle /\ RowIdle

NextLoader ==
    \/ Start
    \/ EnsureDb
    \/ FetchFails
    \/ \E obj \in Datasets : \E t \in clock .. MaxTime : Fetch(obj, t)
    \/ Prepare
    \/ Begin
    \/ UpsertRow
    \/ \E t \in clock .. MaxTime : UpsertDone(t)
    \/ MarkCached
    \/ MarkCachedAt
    \/ MarkCount
    \/ Commit
    \/ StorageFailure
    \/ Exit

SpecLoader == InitLoader /\ [][NextLoader]_vars

InitRowSpec == ProxyIdle /\ LoaderIdle /\ InitRow

NextRow == PrepareRow

SpecRow == InitRowSpec /\ [][NextRow]_vars

(***************************************************************************)
(*                      PROPERTIES OF THE PROXY                            *)
(***************************************************************************)
\* The upstream path the specification tabulates for each route.
UpstreamTable ==
    << <<>>,
       <<"user", "{user_id}">>,
       <<"user", "{user_id}", "leagues", "{sport}", "{season}">>,
       <<"league", "{league_id}">>,
       <<"league", "{league_id}", "rosters">> >>

Answered == ppc = "done" /\ req.route \in 2 .. 5

\* C4: on every route, an upstream response with status >= 400 is answered
\* with an error of the same status whose detail is the upstream's body
\* text, after exactly one upstream request.
C4_UpstreamErrorPassedThrough ==
    (Answered /\ upstream.kind = "response" /\ upstream.status >= 400)
        => /\ response = [status |-> upstream.status, detail |-> upstream.text]
           /\ Len(upstream_calls) = 1

C4_Witness ==
    /\ Answered
    /\ req.route = 5
    /\ upstream = [kind |-> "response", status |-> 404, text |-> "not found"]
    /\ response = [status |-> 404, detail |-> "not found"]

\* C5: on every route and for every path parameter, a transport failure (no
\* response received) is answered with status 502.
C5_TransportFailureIs502 ==
    (Answered /\ upstream.kind = "request_error") => response.status = 502

C5_Witness ==
    /\ Answered
    /\ req.route = 3
    /\ upstream = [kind |-> "request_error", exc |-> "ReadTimeout"]
    /\ response.status = 502

\* C6: an inbound request for one of the four /sleeper routes is dispatched
\* to that route's own endpoint and causes exactly one upstream GET, whose
\* path is the inbound parameters substituted into the route's upstream
\* template.
C6_OneUpstreamGetOnTablePath ==
    (ppc \in {"awaiting", "done"} /\ req.route \in 2 .. 5)
        => /\ endpoint = req.route
           /\ upstream_calls =
                  << <<SLEEPER_BASE_URL>> \o Substitute(UpstreamTable[req.route], req.args) >>

C6_Witness ==
    /\ Answered
    /\ req.route = 4
    /\ req.args["{league_id}"] = "rosters"
    /\ inbound = <<"sleeper", "league", "rosters">>
    /\ upstream_calls = << <<SLEEPER_BASE_URL, "league", "rosters">> >>

\* C7: every upstream response with status < 400, whatever its body, is
\* answered with status 200 and the decoded body, never with an error.
C7_SuccessIs200 ==
    (Answered /\ upstream.kind = "response" /\ upstream.status < 400)
        => /\ response.status = 200
           /\ "json" \in DOMAIN response

(***************************************************************************)
(*                   PROPERTIES OF ROW PREPARATION                         *)
(***************************************************************************)
RowBuilt == row_out # NoRow /\ row_out # PrepError

\* A name is present when the entry has it and it is not empty.
Present(p, k) == Get(p, k) # JNull /\ Get(p, k) # JStr("")

\* C3 as stated: full_name is first_name + " " + last_name when both are
\* present and the upstream's full_name field in every other case.
C3_FullNameBothOrUpstream ==
    RowBuilt =>
        IF Present(row_p, "first_name") /\ Present(row_p, "last_name")
        THEN row_out["full_name"] =
                 JStr(Get(row_p, "first_name").s \o " " \o Get(row_p, "last_name").s)
        ELSE row_out["full_name"] = Get(row_p, "full_name")

\* C3 as amended: full_name is first_name + " " + last_name when both are
\* present, the one present name alone when exactly one of them is present,
\* and the upstream's full_name field when neither is.
C3_FullNameJoinsPresentNames ==
    RowBuilt =>
        row_out["full_name"] =
            CASE Present(row_p, "first_name") /\ Present(row_p, "last_name") ->
                     JStr(Get(row_p, "first_name").s \o " " \o Get(row_p, "last_name").s)
              [] Present(row_p, "first_name") /\ ~Present(row_p, "last_name") ->
                     Get(row_p, "first_name")
              [] ~Present(row_p, "first_name") /\ Present(row_p, "last_name") ->
                     Get(row_p, "last_name")
              [] OTHER -> Get(row_p, "full_name")

C3_Witness ==
    /\ RowBuilt
    /\ row_p = JObj([first_name |-> JStr("Tom"), last_name |-> JStr(""),
                     full_name |-> JStr("X Y")])
    /\ row_out["full_name"] = JStr("Tom")

(***************************************************************************)
(*                   PROPERTIES OF THE CACHE LOADER                        *)
(***************************************************************************)
\* The player_ids the rows of a dataset are written under.
IdsOf(obj) ==
    {RowId(obj[i][1], obj[i][2]) : i \in {j \in DOMAIN obj : obj[j][2].t = "obj"}}

Succeeded == pc = "done" /\ result = "ok"

Failed == pc = "done" /\ result = "raised"

MetaKeys == {"players_cached", "players_cached_at", "players_count"}

C1_State ==
    /\ pc \notin {"idle", "done"} => players = pre_players /\ meta = pre_meta
    /\ Failed => players = pre_players /\ meta = pre_meta
    /\ Succeeded =>
           /\ \A i \in DOMAIN players_obj :
                  LET id == RowId(players_obj[i][1], players_obj[i][2])
                  IN  /\ id \in DOMAIN players
                      /\ players[id]["updated_at"] = JInt(now)
                      /\ \E j \in DOMAIN players_obj :
                             /\ RowId(players_obj[j][1], players_obj[j][2]) = id
                             /\ players[id]["data_json"] = JsonDumps(players_obj[j][2])
           /\ MetaKeys \subseteq DOMAIN meta
           /\ meta["players_cached"] = JStr("1")
           /\ meta["players_cached_at"] = formatted_time
           /\ meta["players_count"] = JStr(Numeral(Len(players_obj)))

C1_Step ==
    (players' # players \/ meta' # meta)
        => /\ pc = "commit"
           /\ result' = "ok"
           /\ players' = tx_players
           /\ meta' = tx_meta
           /\ MetaKeys \subseteq DOMAIN meta'

\* C1: a run is all-or-nothing.  Until it commits, and after it fails at any
\* step, players and meta hold what they held before the run, and the
\* failure is raised; after it succeeds, every upstream entry has its row
\* in players and the three meta keys are set; rows and meta keys change in
\* one and the same commit.
C1_AllOrNothing == []C1_State /\ [][C1_Step]_vars

\* A run that raised in the transaction after it had upserted a row.
C1_Witness ==
    /\ Failed
    /\ Len(rows) = 2
    /\ idx = 2
    /\ players = pre_players
    /\ meta = pre_meta

SameDatasetTwice == Succeeded /\ last.result = "ok" /\ last.obj = players_obj

SameButStamp(r1, r2) == \A c \in Columns \ {"updated_at"} : r1[c] = r2[c]

\* C2 as stated: after a second successful run against the same dataset the
\* table has the same rows with the same values in every column except
\* updated_at, which is strictly greater than after the first run.
C2_IdempotentStampAdvances ==
    SameDatasetTwice =>
        /\ DOMAIN players = DOMAIN pre_players
        /\ \A id \in DOMAIN players : SameButStamp(players[id], pre_players[id])
        /\ \A id \in IdsOf(players_obj) :
               players[id]["updated_at"].n > pre_players[id]["updated_at"].n

\* C2 as amended: ... except updated_at, which in every row of the dataset
\* is the second run's fetch time: strictly greater than after the first run
\* when the clock's second has advanced between the two fetches, and equal
\* to it when both fetches fall in the same second.
C2_IdempotentStampIsFetchTime ==
    SameDatasetTwice =>
        /\ DOMAIN players = DOMAIN pre_players
        /\ \A id \in DOMAIN players : SameButStamp(players[id], pre_players[id])
        /\ \A id \in IdsOf(players_obj) :
               /\ players[id]["updated_at"] = JInt(now)
               /\ pre_players[id]["updated_at"] = JInt(last.now)
               /\ now > last.now =>
                      players[id]["updated_at"].n > pre_players[id]["updated_at"].n
               /\ now = last.now =>
                      players[id]["updated_at"] = pre_players[id]["updated_at"]

C2_Witness ==
    /\ SameDatasetTwice
    /\ Len(players_obj) = 2
    /\ now = last.now
    /\ \E id \in IdsOf(players_obj) :
           players[id]["updated_at"] = pre_players[id]["updated_at"]

\* The upstream field a column is extracted from.
FieldOf(c) == IF c = "fantasy_positions_json" THEN "fantasy_positions" ELSE c

\* The upstream entry a row was made from, read back from its raw payload.
EntryOf(row) == row["data_json"].of

KeyedAndRaw(row) == row["player_id"] # JNull /\ row["data_json"] # JNull

\* C8 as stated: every row has a non-null player_id and raw payload, and
\* every other extracted column is null exactly when its field is absent
\* from the upstream entry (absent, or there with the value null).
C8_NullExactlyWhenAbsent ==
    \A id \in DOMAIN players :
        /\ KeyedAndRaw(players[id])
        /\ \A c \in Columns \ {"player_id", "data_json", "updated_at"} :
               (players[id][c] = JNull) <=> (Get(EntryOf(players[id]), FieldOf(c)) = JNull)

\* C8 as amended: every row has a non-null player_id and raw payload; every
\* other extracted column except full_name is null exactly when its field is
\* absent or null in the upstream entry; full_name is null exactly when
\* first_name and last_name are both absent, null or empty and the full_name
\* field is absent or null.
C8_NullExactlyWhenNothingToStore ==
    \A id \in DOMAIN players :
        /\ KeyedAndRaw(players[id])
        /\ \A c \in Columns \ {"player_id", "data_json", "updated_at", "full_name"} :
               (players[id][c] = JNull) <=> (Get(EntryOf(players[id]), FieldOf(c)) = JNull)
        /\ (players[id]["full_name"] = JNull)
               <=> /\ ~Present(EntryOf(players[id]), "first_name")
                   /\ ~Present(EntryOf(players[id]), "last_name")
                   /\ Get(EntryOf(players[id]), "full_name") = JNull

\* A failed run that followed the run which stored an entry with a null
\* team, no full_name field and both names.
C8_Witness ==
    /\ Failed
    /\ "1" \in DOMAIN players
    /\ EntryOf(players["1"]) = pBrady
    /\ players["1"]["team"] = JNull
    /\ players["1"]["full_name"] = JStr("Tom Brady")

C9_Step ==
    \A id \in DOMAIN players :
        /\ id \in DOMAIN players'
        /\ id \notin IdsOf(players_obj) => players'[id] = players[id]

\* C9: no step of any run removes a player_id from the players table, and a
\* row whose player_id is not in the run's dataset keeps every column.
C9_NeverShrinks == [][C9_Step]_vars

\* A second run succeeded without player "2", whose row the first run wrote.
C9_Witness ==
    /\ Succeeded
    /\ last.result = "ok"
    /\ IdsOf(players_obj) = {"1"}
    /\ "2" \in DOMAIN players
    /\ players["2"] = pre_players["2"]
    /\ players["2"]["updated_at"] = JInt(last.now)
    /\ now > last.now

=============================================================================
